---------------------------- MODULE Spec2Model ----------------------------
(***************************************************************************)
(* A model of discord-to-slack-converter.py: the sanitizers, the timestamp *)
(* normalizer, the row builder, main()'s convert mode and the CSV          *)
(* preflight.                                                              *)
(*                                                                         *)
(* A Python str is a sequence of characters; a character is a one-element  *)
(* token: the ASCII character itself, or "U+xxxx" for a code point outside *)
(* ASCII and for the backtick, U+0060.  A JSON value is a record [t, i,    *)
(* s]: t its Python type, i its integer payload, s its string payload.     *)
(***************************************************************************)
EXTENDS Integers, Sequences, FiniteSets, TLC

VARIABLES
    pc,             \* control position of the run
    arg,            \* argument of the function under call
    ret,            \* its return value
    file_args,      \* main: the JSON inputs, each [name, data]
    next_file,      \* main: how many of them the loop has converted
    forced_channel, \* main: sanitize_channel(args.channel) or ""
    chan_map,       \* main: the loaded channel map, a sequence of [k, v]
    all_rows,       \* main: the rows built so far
    outfile,        \* the CSV file's text
    f_pos,          \* preflight: how many characters csv.reader has consumed
    issues,         \* preflight: the counters
    last_ts         \* preflight: the timestamp compared against

vars == <<pc, arg, ret, file_args, next_file, forced_channel, chan_map,
          all_rows, outfile, f_pos, issues, last_ts>>

callVars == <<arg, ret>>
mainVars == <<file_args, next_file, forced_channel, chan_map, all_rows, outfile>>
preflightVars == <<f_pos, issues, last_ts>>

---------------------------------------------------------------------------
(* What the variables hold outside the run they belong to. *)

NoIssues ==
    [wrong_cols |-> 0, bad_ts |-> 0, bad_channel |-> 0,
     bad_username |-> 0, unsorted |-> 0, rows |-> 0]

\* last_ts = -10**18, a value below every int(ts) of an all-digit ts; the
\* model's integers are 32 bits wide, so it is held as -(2^30), which is
\* below every such value too
LAST_TS_INIT == -(2^30)

idleMain ==
    /\ file_args = <<>> /\ next_file = 0 /\ forced_channel = <<>>
    /\ chan_map = <<>> /\ all_rows = <<>> /\ outfile = <<>>

idlePreflight == f_pos = 0 /\ last_ts = LAST_TS_INIT /\ issues = NoIssues

---------------------------------------------------------------------------
(* Bounds of the model. *)

\* longest short input string of the sanitizers
MaxLen == 3

\* most rows of a CSV file given to the preflight
MaxRows == 3

\* most messages of a JSON file made of chat messages
MaxMsgs == 2

---------------------------------------------------------------------------
(* Characters and their classes, as Python's str methods and re see them. *)

LowerSeq == <<"a","b","c","d","e","f","g","h","i","j","k","l","m",
              "n","o","p","q","r","s","t","u","v","w","x","y","z">>
UpperSeq == <<"A","B","C","D","E","F","G","H","I","J","K","L","M",
              "N","O","P","Q","R","S","T","U","V","W","X","Y","Z">>
DigitSeq == <<"0","1","2","3","4","5","6","7","8","9">>

Range(s) == {s[i] : i \in 1..Len(s)}

AsciiLower == Range(LowerSeq)
AsciiUpper == Range(UpperSeq)
AsciiDigit == Range(DigitSeq)

\* U+00E9 (e acute, Ll), U+00C9 (E acute, Lu), U+0663 (Arabic-Indic digit
\* three, Nd): word characters of a str pattern that are not ASCII.
UniLower == {"U+00E9"}
UniUpper == {"U+00C9"}
UniDigit == {"U+0663"}

\* str.strip() with no argument strips these (str.isspace)
Whitespace == {" ", "\n", "\t", "\r"}

\* unicodedata.category(ch) in ("Cc", "Cf", "Cs", "Co"): \r, \n, \t and
\* U+0000 are Cc, U+200B (zero width space) is Cf
ControlCats == {"\n", "\t", "\r", "U+0000", "U+200B"}

\* \w of a str pattern: Unicode alphanumerics and the underscore
IsWord(c) == c \in AsciiLower \cup AsciiUpper \cup AsciiDigit \cup {"_"}
                    \cup UniLower \cup UniUpper \cup UniDigit

\* \d of a str pattern: any Unicode decimal digit
IsDigit(c) == c \in AsciiDigit \cup UniDigit

\* [A-Za-z0-9]
IsAsciiAlnum(c) == c \in AsciiLower \cup AsciiUpper \cup AsciiDigit

IndexIn(seq, c) == CHOOSE i \in 1..Len(seq) : seq[i] = c

\* str.lower() on one character
LowerChar(c) ==
    IF c \in AsciiUpper THEN LowerSeq[IndexIn(UpperSeq, c)]
    ELSE IF c = "U+00C9" THEN "U+00E9"
    ELSE c

---------------------------------------------------------------------------
(* str methods and the re.sub shapes the sanitizers use. *)

Min(S) == CHOOSE x \in S : \A y \in S : x <= y
Max(S) == -Min({-x : x \in S})

\* the first index in lo..hi at which P holds, hi + 1 when there is none
First(lo, hi, P(_)) ==
    IF \E q \in lo..hi : P(q)
    THEN CHOOSE q \in lo..hi : P(q) /\ \A k \in lo..(q - 1) : ~P(k)
    ELSE hi + 1

\* s[:n]
Take(s, n) == SubSeq(s, 1, IF Len(s) < n THEN Len(s) ELSE n)

\* s[n:]
Drop(s, n) == SubSeq(s, n + 1, Len(s))

\* s.lstrip(chars) / re.sub("^[chars]+", "", s)
LStrip(s, chars) ==
    LET keep == {i \in 1..Len(s) : s[i] \notin chars}
    IN  IF keep = {} THEN <<>> ELSE SubSeq(s, Min(keep), Len(s))

\* s.rstrip(chars) / re.sub("[chars]+$", "", s) on a str with no final \n
RStrip(s, chars) ==
    LET keep == {i \in 1..Len(s) : s[i] \notin chars}
    IN  IF keep = {} THEN <<>> ELSE SubSeq(s, 1, Max(keep))

\* s.strip(chars)
Strip(s, chars) == RStrip(LStrip(s, chars), chars)

\* s.replace(a, b) for single characters a, b
ReplaceChar(s, a, b) == [i \in 1..Len(s) |-> IF s[i] = a THEN b ELSE s[i]]

\* s.startswith(p) / s.endswith(p)
StartsWith(s, p) == Len(s) >= Len(p) /\ SubSeq(s, 1, Len(p)) = p
EndsWith(s, p) == Len(s) >= Len(p) /\ SubSeq(s, Len(s) - Len(p) + 1, Len(s)) = p

\* n copies of character c
Rep(c, n) == [i \in 1..n |-> c]

\* the strings over alphabet A of length at most n
StringsUpTo(A, n) == UNION {[1..k -> A] : k \in 0..n}

---------------------------------------------------------------------------
(* Identifier sanitizers. *)

\* the length both slugs are cut to, and the {1,80} of CHAN_RE and USER_RE
SLUG_MAX == 80

RECURSIVE CollapseHyphens(_)
\* re.sub(r"-{2,}", "-", ch): each run of hyphens becomes one hyphen
\* (computed on the two halves, which meet in at most one run)
CollapseHyphens(s) ==
    IF Len(s) < 2 THEN s
    ELSE LET h == Len(s) \div 2
             l == CollapseHyphens(SubSeq(s, 1, h))
             r == CollapseHyphens(SubSeq(s, h + 1, Len(s)))
         IN  IF l[Len(l)] = "-" /\ r[1] = "-" THEN l \o Tail(r) ELSE l \o r

IsChanChar(c) == c \in AsciiLower \cup AsciiDigit \cup {"_", "-"}

general == <<"g","e","n","e","r","a","l">>
user_import == <<"u","s","e","r","_","i","m","p","o","r","t">>

\* re.sub(r"[^a-z0-9_-]", "-", ch)
HyphenateDisallowed(s) == [i \in 1..Len(s) |-> IF IsChanChar(s[i]) THEN s[i] ELSE "-"]

\* (a variant of ChanCut without the "general" default)
ChanCut_NoDefault(ch) == Take(ch, SLUG_MAX)

\* ch[:80] or "general"
ChanCut(ch) == IF Take(ch, SLUG_MAX) = <<>> THEN general ELSE Take(ch, SLUG_MAX)

sanitize_channel(ch) ==
    LET c1 == [i \in 1..Len(ch) |-> LowerChar(ch[i])]
        c2 == ReplaceChar(ReplaceChar(Strip(c1, Whitespace), " ", "-"), ".", "-")
        c3 == HyphenateDisallowed(c2)
        c4 == Strip(CollapseHyphens(c3), {"-"})
    IN  ChanCut(c4)

IsUserBodyChar(c) == IsWord(c) \/ c \in {".", "-"}

\* re.sub(r"[^\w.-]", "_", u)
UnderscoreDisallowed(u) ==
    [i \in 1..Len(u) |-> IF IsUserBodyChar(u[i]) THEN u[i] ELSE "_"]

sanitize_username(u) ==
    LET u1 == Strip(u, Whitespace)
        \* re.sub(r"^[^\w]+", "", u)
        keepL == {i \in 1..Len(u1) : IsWord(u1[i])}
        u2 == IF keepL = {} THEN <<>> ELSE SubSeq(u1, Min(keepL), Len(u1))
        \* re.sub(r"[^\w.-]+$", "", u)
        keepR == {i \in 1..Len(u2) : IsUserBodyChar(u2[i])}
        u3 == IF keepR = {} THEN <<>> ELSE SubSeq(u2, 1, Max(keepR))
        u4 == UnderscoreDisallowed(u3)
        u5 == IF u4 = <<>> \/ ~IsAsciiAlnum(u4[1]) THEN user_import ELSE u4
    IN  Take(u5, SLUG_MAX)

\* CHAN_RE.fullmatch(s)
CHAN_RE(s) == Len(s) \in 1..SLUG_MAX /\ \A i \in 1..Len(s) : IsChanChar(s[i])

\* USER_RE.fullmatch(s)
USER_RE(s) ==
    /\ Len(s) \in 1..SLUG_MAX
    /\ \A i \in 1..Len(s) : IsAsciiAlnum(s[i]) \/ s[i] \in {".", "_", "-"}

---------------------------------------------------------------------------
(* Inputs of the identifier sanitizers: every short string over one        *)
(* character of each class, and long strings around the 80 cut.            *)

IdentAlphabet == {"a", "B", "1", "_", "-", ".", " ", "#", "U+00E9", "U+0663"}

ShortIdents == StringsUpTo(IdentAlphabet, MaxLen)

LongIdents ==
    {Rep(c, SLUG_MAX - 1) \o t : c \in {"a", "-", "#"},
                                 t \in StringsUpTo({"a", "-", "#"}, MaxLen)}

IdentInputs == ShortIdents \cup LongIdents

(* sanitize_username called on each input *)
InitUser ==
    /\ pc = "call" /\ arg \in IdentInputs /\ ret = <<>>
    /\ idleMain /\ idlePreflight

CallSanitizeUsername ==
    /\ pc = "call"
    /\ ret' = sanitize_username(arg)
    /\ pc' = "return"
    /\ UNCHANGED <<arg, mainVars, preflightVars>>

SpecUser == InitUser /\ [][CallSanitizeUsername]_vars

(* sanitize_channel called on each input *)
InitChan ==
    /\ pc = "call" /\ arg \in IdentInputs /\ ret = <<>>
    /\ idleMain /\ idlePreflight

CallSanitizeChannel ==
    /\ pc = "call"
    /\ ret' = sanitize_channel(arg)
    /\ pc' = "return"
    /\ UNCHANGED <<arg, mainVars, preflightVars>>

SpecChan == InitChan /\ [][CallSanitizeChannel]_vars

---------------------------------------------------------------------------
(* Sequence helpers computed on halves, so that their depth is the         *)
(* logarithm of the length.                                                *)

RECURSIVE KeepRange(_, _, _, _)
KeepRange(s, keep, lo, hi) ==
    IF lo > hi THEN <<>>
    ELSE IF lo = hi THEN (IF lo \in keep THEN <<s[lo]>> ELSE <<>>)
    ELSE LET mid == (lo + hi) \div 2
         IN  KeepRange(s, keep, lo, mid) \o KeepRange(s, keep, mid + 1, hi)

\* the subsequence of s at the positions in keep
KeepAt(s, keep) == KeepRange(s, keep, 1, Len(s))

RECURSIVE ConcatRange(_, _, _)
ConcatRange(ss, lo, hi) ==
    IF lo > hi THEN <<>>
    ELSE IF lo = hi THEN ss[lo]
    ELSE LET mid == (lo + hi) \div 2
         IN  ConcatRange(ss, lo, mid) \o ConcatRange(ss, mid + 1, hi)

\* "".join(ss)
Concat(ss) == ConcatRange(ss, 1, Len(ss))

\* whether pattern p occurs in s at position i
MatchAt(s, i, p) == i + Len(p) - 1 <= Len(s) /\ SubSeq(s, i, i + Len(p) - 1) = p

RECURSIVE ReplaceFrom(_, _, _, _)
ReplaceFrom(s, i, old, new) ==
    IF i > Len(s) THEN <<>>
    ELSE IF MatchAt(s, i, old) THEN new \o ReplaceFrom(s, i + Len(old), old, new)
    ELSE <<s[i]>> \o ReplaceFrom(s, i + 1, old, new)

\* s.replace(old, new): the occurrences of old, leftmost first, not overlapping
Replace(s, old, new) == ReplaceFrom(s, 1, old, new)

---------------------------------------------------------------------------
(* Text sanitizers. *)

at_everyone == <<"@","e","v","e","r","y","o","n","e">>
at_here == <<"@","h","e","r","e">>
fence == <<"U+0060","U+0060","U+0060">>

\* [A-Za-z0-9_.-]
IsMentionChar(c) == IsAsciiAlnum(c) \/ c \in {"_", ".", "-"}

\* re.sub(word + r"\b", word[1:], text) for word = "@everyone", "@here":
\* the "@" of each occurrence that a word boundary follows is dropped
SoftenWord(text, word) ==
    LET hit(i) == /\ MatchAt(text, i, word)
                  /\ (i + Len(word) > Len(text) \/ ~IsWord(text[i + Len(word)]))
    IN  KeepAt(text, {i \in 1..Len(text) : ~hit(i)})

\* re.sub(r"@([A-Za-z0-9_.-]{1,80})", r"\1", text): a match holds no "@", so
\* every "@" that a name character follows starts one
DropAtSigns(text) ==
    LET hit(i) == text[i] = "@" /\ i < Len(text) /\ IsMentionChar(text[i + 1])
    IN  KeepAt(text, {i \in 1..Len(text) : ~hit(i)})

strip_mentions(text) ==
    IF text = <<>> THEN <<>>
    ELSE DropAtSigns(SoftenWord(SoftenWord(text, at_everyone), at_here))

\* the end of the match of (?:\w+)?\n? from position i: the index after it
FenceTail(text, i) ==
    LET j == First(i, Len(text), LAMBDA k : ~IsWord(text[k]))
    IN  IF j <= Len(text) /\ text[j] = "\n" THEN j + 1 ELSE j

RECURSIVE DropFencesFrom(_, _)
\* re.sub(r"```(?:\w+)?\n?", "", text), scanning from position i
DropFencesFrom(text, i) ==
    IF i > Len(text) THEN <<>>
    ELSE IF MatchAt(text, i, fence) THEN DropFencesFrom(text, FenceTail(text, i + 3))
    ELSE <<text[i]>> \o DropFencesFrom(text, i + 1)

strip_code_fences(text) ==
    IF text = <<>> THEN <<>>
    ELSE Replace(DropFencesFrom(text, 1), fence, <<>>)

IsProblemControl(ch) == ch \in ControlCats /\ ch \notin {"\n", "\t"}

\* (a variant of KeepsChar that drops newline and tab too)
KeepsChar_NoException(ch) == ch \notin ControlCats

\* the test of remove_problem_controls' loop: ch is appended to out
KeepsChar(ch) == ~IsProblemControl(ch)

remove_problem_controls(s) ==
    IF s = <<>> THEN <<>> ELSE SelectSeq(s, KeepsChar)

\* s[1:-1] when one quote character both starts and ends s
StripOuterQuotes(s) ==
    IF \/ (StartsWith(s, <<"\"">>) /\ EndsWith(s, <<"\"">>))
       \/ (StartsWith(s, <<"'">>) /\ EndsWith(s, <<"'">>))
    THEN SubSeq(s, 2, Len(s) - 1)
    ELSE s

\* the replace() calls of clean_text, in their order; r"\\n" is the three
\* characters backslash, backslash, n
Unescape(s) ==
    LET s1 == Replace(s, <<"\\","\\","r","\\","\\","n">>, <<"\n">>)
        s2 == Replace(Replace(s1, <<"\\","\\","n">>, <<"\n">>), <<"\\","\\","r">>, <<"\n">>)
        s3 == Replace(Replace(s2, <<"\\","\"">>, <<"\"">>), <<"\\","'">>, <<"'">>)
    IN  Replace(Replace(s3, <<"\r","\n">>, <<"\n">>), <<"\r">>, <<"\n">>)

clean_text(s) ==
    IF s = <<>> THEN <<>>
    ELSE remove_problem_controls(Unescape(StripOuterQuotes(s)))

\* the pipeline rows_from_json_file applies to a message body
SanitizeBody(body) == clean_text(strip_code_fences(strip_mentions(body)))

---------------------------------------------------------------------------
(* JSON values as Python holds them after json.load.                       *)
(* t: "missing" (the key is absent), "null", "bool", "int", "float" (i in  *)
(* tenths), "nan" (NaN or an infinity), "str", "list", "dict" (i the       *)
(* number of elements, s the text str() gives).                            *)

JVal(t, i, s) == [t |-> t, i |-> i, s |-> s]
JMissing == JVal("missing", 0, <<>>)
JNull == JVal("null", 0, <<>>)
JInt(n) == JVal("int", n, <<>>)
JStr(s) == JVal("str", 0, s)

\* bool(v): the truth value Python's "not v" and "v or d" test
Truthy(v) ==
    CASE v.t \in {"missing", "null"} -> FALSE
      [] v.t \in {"bool", "int", "float", "list", "dict"} -> v.i # 0
      [] v.t = "nan" -> TRUE
      [] v.t = "str" -> v.s # <<>>

\* int(x) of a float held in tenths: truncation toward zero
TruncTenths(i) == IF i >= 0 THEN i \div 10 ELSE -((-i) \div 10)

---------------------------------------------------------------------------
(* to_epoch_seconds *)

\* the value int() gives one decimal digit character
\* (U+0663 is the digit three)
DigitVal(c) == IF c \in AsciiDigit THEN IndexIn(DigitSeq, c) - 1 ELSE 3

\* re.sub(r"[^\d]", "", s), as digit values
SelectDigits(s) ==
    LET d == SelectSeq(s, IsDigit) IN [i \in 1..Len(d) |-> DigitVal(d[i])]

RECURSIVE DecimalValue(_)
DecimalValue(d) ==
    IF d = <<>> THEN 0
    ELSE DecimalValue(SubSeq(d, 1, Len(d) - 1)) * 10 + d[Len(d)]

\* the decimal digits of 10**12
TenPow12 == <<1, 0, 0, 0, 0, 0, 0, 0, 0, 0, 0, 0, 0>>

\* n > 10**12 for the integer n a digit sequence denotes, decided on the
\* digits because 10**12 is beyond the model's integers
ExceedsTenPow12(d) ==
    LET z == LStrip(d, {0})
    IN  Len(z) > Len(TenPow12) \/ (Len(z) = Len(TenPow12) /\ z # TenPow12)

\* int(n // 1000) if n > 10**12 else n, on the digits of n
MillisToSeconds(d) ==
    IF ExceedsTenPow12(d) THEN DecimalValue(SubSeq(d, 1, Len(d) - 3))
    ELSE DecimalValue(d)

IsLeap(y) == (y % 4 = 0 /\ y % 100 # 0) \/ y % 400 = 0

DaysInMonth(y, m) ==
    IF m = 2 THEN (IF IsLeap(y) THEN 29 ELSE 28)
    ELSE IF m \in {4, 6, 9, 11} THEN 30 ELSE 31

\* days from 1970-01-01 to y-m-d in the proleptic Gregorian calendar
DaysFromCivil(y, m, d) ==
    LET yy == IF m <= 2 THEN y - 1 ELSE y
        era == yy \div 400
        yoe == yy - era * 400
        mp == IF m > 2 THEN m - 3 ELSE m + 9
        doy == (153 * mp + 2) \div 5 + d - 1
        doe == yoe * 365 + yoe \div 4 - yoe \div 100 + doy
    IN  era * 146097 + doe - 719468

AllAsciiDigits(s) == \A i \in 1..Len(s) : s[i] \in AsciiDigit

Num(s) == DecimalValue([i \in 1..Len(s) |-> DigitVal(s[i])])

\* datetime.fromisoformat(s), then dt.replace(tzinfo=utc) when naive, then
\* int(dt.timestamp()), for the forms YYYY-MM-DD, YYYY-MM-DD?HH:MM:SS and
\* YYYY-MM-DD?HH:MM:SS(+|-)HH:MM; ok = FALSE is the ValueError.
fromisoformat(s) ==
    LET n == Len(s)
        dateOk ==
            /\ n >= 10
            /\ AllAsciiDigits(SubSeq(s, 1, 4)) /\ s[5] = "-"
            /\ AllAsciiDigits(SubSeq(s, 6, 7)) /\ s[8] = "-"
            /\ AllAsciiDigits(SubSeq(s, 9, 10))
        timeOk ==
            /\ n >= 19
            /\ AllAsciiDigits(SubSeq(s, 12, 13)) /\ s[14] = ":"
            /\ AllAsciiDigits(SubSeq(s, 15, 16)) /\ s[17] = ":"
            /\ AllAsciiDigits(SubSeq(s, 18, 19))
        zoneOk ==
            /\ n = 25
            /\ s[20] \in {"+", "-"}
            /\ AllAsciiDigits(SubSeq(s, 21, 22)) /\ s[23] = ":"
            /\ AllAsciiDigits(SubSeq(s, 24, 25))
        shapeOk == dateOk /\ (n = 10 \/ (timeOk /\ (n = 19 \/ zoneOk)))
        y == Num(SubSeq(s, 1, 4))
        mo == Num(SubSeq(s, 6, 7))
        d == Num(SubSeq(s, 9, 10))
        h == IF n >= 19 THEN Num(SubSeq(s, 12, 13)) ELSE 0
        mi == IF n >= 19 THEN Num(SubSeq(s, 15, 16)) ELSE 0
        sec == IF n >= 19 THEN Num(SubSeq(s, 18, 19)) ELSE 0
        zh == IF n = 25 THEN Num(SubSeq(s, 21, 22)) ELSE 0
        zm == IF n = 25 THEN Num(SubSeq(s, 24, 25)) ELSE 0
        off == (IF n = 25 /\ s[20] = "-" THEN -1 ELSE 1) * (zh * 3600 + zm * 60)
        rangeOk ==
            /\ y >= 1 /\ mo \in 1..12 /\ d \in 1..DaysInMonth(y, mo)
            /\ h \in 0..23 /\ mi \in 0..59 /\ sec \in 0..59
            /\ zh \in 0..23 /\ zm \in 0..59
    IN  IF shapeOk /\ rangeOk
        THEN [ok |-> TRUE,
              epoch |-> DaysFromCivil(y, mo, d) * 86400 + h * 3600 + mi * 60 + sec - off]
        ELSE [ok |-> FALSE, epoch |-> 0]

utc_offset == <<"+", "0", "0", ":", "0", "0">>

\* s[:-1] + "+00:00" when s ends with "Z"; the fallback reads this s too
ZuluToOffset(s) ==
    IF EndsWith(s, <<"Z">>) THEN SubSeq(s, 1, Len(s) - 1) \o utc_offset ELSE s

\* the fallback: int() of the digits, 0 on its ValueError
DigitsFallback(s) ==
    IF SelectDigits(s) = <<>> THEN 0 ELSE MillisToSeconds(SelectDigits(s))

\* int(ts_val) of a number; raised is the ValueError or OverflowError of
\* int(nan) or int(inf), which nothing catches
NumberToEpoch(v) ==
    IF v.t = "nan" THEN [raised |-> TRUE, v |-> 0]
    ELSE [raised |-> FALSE, v |-> IF v.t = "float" THEN TruncTenths(v.i) ELSE v.i]

to_epoch_seconds(ts_val) ==
    IF ts_val.t \in {"bool", "int", "float", "nan"} THEN NumberToEpoch(ts_val)
    ELSE IF ~Truthy(ts_val) THEN [raised |-> FALSE, v |-> 0]
    ELSE LET s == ZuluToOffset(ts_val.s)
             iso == fromisoformat(s)
         IN  [raised |-> FALSE,
              v |-> IF iso.ok THEN iso.epoch ELSE DigitsFallback(s)]

(* to_epoch_seconds called on integers, null, and strings: every short     *)
(* string over digits, a letter, "-", "Z" and a non-ASCII digit, and ISO   *)
(* and epoch-milliseconds strings.                                         *)

iso_2021 == <<"2","0","2","1","-","0","1","-","0","1">>
iso_1969 == <<"1","9","6","9","-","1","2","-","3","1">>
midnight == <<"T","0","0",":","0","0",":","0","0">>
last_second == <<"T","2","3",":","5","9",":","5","9">>
epoch_2021 == <<"1","6","0","9","4","5","9","2","0","0">>

TsStrings ==
    StringsUpTo({"1", "9", "a", "-", "Z", "U+0663"}, MaxLen)
    \cup {iso_2021, iso_2021 \o midnight, iso_2021 \o midnight \o <<"Z">>,
          iso_2021 \o midnight \o utc_offset,
          iso_2021 \o <<" ">> \o Tail(midnight),
          iso_1969 \o last_second \o <<"Z">>, iso_1969,
          epoch_2021, epoch_2021 \o <<"0","0","0">>,
          <<"n","o","w">>, <<" ">>}

TsInputs ==
    {JNull} \cup {JInt(n) : n \in {-5, -1, 0, 1, 1609459200}}
            \cup {JStr(s) : s \in TsStrings}

InitTs ==
    /\ pc = "call" /\ arg \in TsInputs /\ ret = [raised |-> FALSE, v |-> 0]
    /\ idleMain /\ idlePreflight

CallToEpochSeconds ==
    /\ pc = "call"
    /\ ret' = to_epoch_seconds(arg)
    /\ pc' = "return"
    /\ UNCHANGED <<arg, mainVars, preflightVars>>

SpecTs == InitTs /\ [][CallToEpochSeconds]_vars

(* The text pipeline called on every short body over one character of     *)
(* each kind, and on bodies with mentions and fences.                      *)

TextAlphabet == {"a", "n", "@", "U+0060", "\"", "'", "\\", "\n", "\r", "U+200B"}

scenario_content ==
    <<"h","e","l","l","o"," ">> \o at_everyone \o <<" ">> \o fence \o <<"x">> \o fence

TextInputs ==
    StringsUpTo(TextAlphabet, MaxLen)
    \cup {scenario_content,
          fence \o <<"p","y","\n","a","\n">> \o fence,
          fence \o <<"\n","a"," ","b","\n">> \o fence,
          <<"U+0060","U+0060">> \o fence \o <<"U+0060">>,
          <<"@">> \o at_everyone \o <<"s">>, at_here \o <<"!">>,
          <<"\\","\\","r","\\","\\","n">>, <<"a","\\","\\","n","b">>,
          <<"\"","h","i","\"">>, <<"a","\r","\n","b","\t">>}

InitText ==
    /\ pc = "call" /\ arg \in TextInputs /\ ret = <<>>
    /\ idleMain /\ idlePreflight

CallSanitizeBody ==
    /\ pc = "call"
    /\ ret' = SanitizeBody(arg)
    /\ pc' = "return"
    /\ UNCHANGED <<arg, mainVars, preflightVars>>

SpecText == InitText /\ [][CallSanitizeBody]_vars

---------------------------------------------------------------------------
(* The csv module, dialect excel: the writer with QUOTE_ALL, the reader.   *)

quotechar == "\""
delimiter == ","
lineterminator == <<"\r", "\n">>

\* one field as csv.writer writes it under QUOTE_ALL
QuoteField(f) ==
    <<quotechar>>
    \o Concat([i \in 1..Len(f) |->
                 IF f[i] = quotechar THEN <<quotechar, quotechar>> ELSE <<f[i]>>])
    \o <<quotechar>>

\* w.writerow(row)
writerow(row) ==
    Concat([i \in 1..Len(row) |->
              (IF i > 1 THEN <<delimiter>> ELSE <<>>) \o QuoteField(row[i])])
    \o lineterminator

\* the index after the line terminator that starts at e (\r\n, \r or \n)
AfterTerminator(text, e) ==
    IF text[e] = "\r" /\ e < Len(text) /\ text[e + 1] = "\n" THEN e + 2 ELSE e + 1

\* IN_FIELD from index i: the characters up to the delimiter or the line end
UnquotedPart(text, i) ==
    LET e == First(i, Len(text), LAMBDA k : text[k] \in {delimiter, "\r", "\n"})
    IN  [field |-> SubSeq(text, i, e - 1),
         more |-> e <= Len(text) /\ text[e] = delimiter,
         next |-> IF e > Len(text) THEN e
                  ELSE IF text[e] = delimiter THEN e + 1
                  ELSE AfterTerminator(text, e)]

\* how many quote characters in a row end at position p, none before lo
RECURSIVE QuoteRun(_, _, _)
QuoteRun(text, lo, p) ==
    IF p < lo \/ text[p] # quotechar THEN 0 ELSE 1 + QuoteRun(text, lo, p - 1)

\* IN_QUOTED_FIELD from index lo: a quote followed by a quote is one quote
\* of the field, another quote closes it; what follows the closing quote
\* up to the delimiter or the line end is added to the field
QuotedPart(text, lo) ==
    LET q == First(lo, Len(text),
                   LAMBDA k : /\ text[k] = quotechar
                              /\ (k = Len(text) \/ text[k + 1] # quotechar)
                              /\ QuoteRun(text, lo, k) % 2 = 1)
        body == KeepAt(SubSeq(text, lo, q - 1),
                       {k \in 1..(q - lo) :
                          \/ text[lo + k - 1] # quotechar
                          \/ QuoteRun(text, lo, lo + k - 1) % 2 = 0})
        rest == UnquotedPart(text, q + 1)
    IN  IF q >= Len(text) THEN [field |-> body, more |-> FALSE, next |-> Len(text) + 1]
        ELSE [field |-> body \o rest.field, more |-> rest.more, next |-> rest.next]

\* START_FIELD at index i
ReadField(text, i) ==
    IF i <= Len(text) /\ text[i] = quotechar THEN QuotedPart(text, i + 1)
    ELSE UnquotedPart(text, i)

RECURSIVE ReadFields(_, _)
ReadFields(text, i) ==
    LET f == ReadField(text, i)
    IN  IF f.more
        THEN LET r == ReadFields(text, f.next)
             IN  [fields |-> <<f.field>> \o r.fields, next |-> r.next]
        ELSE [fields |-> <<f.field>>, next |-> f.next]

\* next(csv.reader(f)) with the file read up to index i - 1, i <= Len(text):
\* the row, and the index after it; an empty line is the row []
ReadRecord(text, i) ==
    IF text[i] \in {"\r", "\n"}
    THEN [fields |-> <<>>, next |-> AfterTerminator(text, i)]
    ELSE ReadFields(text, i)

RECURSIVE ReadAllFrom(_, _)
ReadAllFrom(text, i) ==
    IF i > Len(text) THEN <<>>
    ELSE LET r == ReadRecord(text, i) IN <<r.fields>> \o ReadAllFrom(text, r.next)

\* list(csv.reader(f))
ReadAll(text) == ReadAllFrom(text, 1)

---------------------------------------------------------------------------
(* preflight_slack_csv *)

\* re.fullmatch(r"\d+", ts)
IsNumericTs(ts) == Len(ts) >= 1 /\ \A i \in 1..Len(ts) : IsDigit(ts[i])

\* int(ts)
IntOf(ts) == DecimalValue([i \in 1..Len(ts) |-> DigitVal(ts[i])])

\* (a variant of IsOutOfOrder with the comparison turned around)
IsOutOfOrder_Reversed(it, last) == it > last

\* it < last_ts
IsOutOfOrder(it, last) == it < last

\* (a variant of NextLastTs that keeps the running maximum)
NextLastTs_RunningMax(it, last) == IF it > last THEN it ELSE last

\* last_ts = it
NextLastTs(it, last) == it

Bump(iss, k) == [iss EXCEPT ![k] = @ + 1]

BumpIf(iss, k, cond) == IF cond THEN Bump(iss, k) ELSE iss

\* the body of the loop over csv.reader(f), on the counters
ScanRow(iss, last, row) ==
    LET counted == Bump(iss, "rows")
    IN  IF Len(row) # 4 THEN Bump(counted, "wrong_cols")
        ELSE LET ts == row[1]
                 i1 == IF ~IsNumericTs(ts) THEN Bump(counted, "bad_ts")
                       ELSE BumpIf(counted, "unsorted", IsOutOfOrder(IntOf(ts), last))
                 i2 == BumpIf(i1, "bad_channel", ~CHAN_RE(row[2]))
             IN  BumpIf(i2, "bad_username", ~USER_RE(row[3]))

\* the same body, on last_ts
ScanLastTs(last, row) ==
    IF Len(row) = 4 /\ IsNumericTs(row[1]) THEN NextLastTs(IntOf(row[1]), last)
    ELSE last

\* preflight_slack_csv up to the open(): the counters and last_ts are set
PreflightOpen ==
    /\ pc = "preflight"
    /\ issues' = NoIssues
    /\ last_ts' = LAST_TS_INIT
    /\ f_pos' = 0
    /\ pc' = "scan"
    /\ UNCHANGED <<callVars, mainVars>>

\* one turn of the loop: the reader yields the next row of the file
PreflightRow ==
    /\ pc = "scan"
    /\ f_pos < Len(outfile)
    /\ LET r == ReadRecord(outfile, f_pos + 1)
       IN  /\ issues' = ScanRow(issues, last_ts, r.fields)
           /\ last_ts' = ScanLastTs(last_ts, r.fields)
           /\ f_pos' = r.next - 1
    /\ UNCHANGED <<pc, callVars, mainVars>>

\* the reader is exhausted: preflight_slack_csv returns the counters
PreflightReturn ==
    /\ pc = "scan"
    /\ f_pos >= Len(outfile)
    /\ pc' = "done"
    /\ UNCHANGED <<callVars, mainVars, preflightVars>>

---------------------------------------------------------------------------
(* Message records.  A message is a record of its fields, each a JSON     *)
(* value; author_username is author["username"]; attachments and embeds    *)
(* are [v, items]: v the value itself, items its elements when it is a     *)
(* list, each [v, url, proxy_url, filename].                               *)

RECURSIVE NatToStr(_)
NatToStr(n) ==
    IF n < 10 THEN <<DigitSeq[n + 1]>>
    ELSE NatToStr(n \div 10) \o <<DigitSeq[(n % 10) + 1]>>

\* str(n) of an int
IntToStr(n) == IF n < 0 THEN <<"-">> \o NatToStr(-n) ELSE NatToStr(n)

\* str(v)
PyStr(v) ==
    CASE v.t = "str" -> v.s
      [] v.t = "int" -> IntToStr(v.i)
      [] v.t = "bool" -> IF v.i # 0 THEN <<"T","r","u","e">> ELSE <<"F","a","l","s","e">>
      [] v.t \in {"null", "missing"} -> <<"N","o","n","e">>
      [] v.t = "float" ->
            (IF v.i < 0 THEN <<"-">> ELSE <<>>)
            \o NatToStr((IF v.i < 0 THEN -v.i ELSE v.i) \div 10)
            \o <<".">> \o NatToStr((IF v.i < 0 THEN -v.i ELSE v.i) % 10)
      [] OTHER -> v.s

\* sep.join(parts)
Join(sep, parts) ==
    Concat([i \in 1..Len(parts) |-> (IF i > 1 THEN sep ELSE <<>>) \o parts[i]])

\* a.get("url") or a.get("proxy_url") or a.get("filename")
AttachmentRef(a) ==
    IF Truthy(a.url) THEN a.url
    ELSE IF Truthy(a.proxy_url) THEN a.proxy_url
    ELSE a.filename

\* what the loop over attachments appends for entry a
AttachmentPart(a) ==
    IF a.v.t = "dict"
    THEN (IF Truthy(AttachmentRef(a)) THEN <<PyStr(AttachmentRef(a))>> ELSE <<>>)
    ELSE <<PyStr(a.v)>>

\* what the loop over embeds appends for entry e
EmbedPart(e) ==
    IF e.v.t = "dict" /\ Truthy(e.url) THEN <<PyStr(e.url)>> ELSE <<>>

\* m.get(key, []) of a list-valued field: the elements the loop runs over
ListItems(field) == IF field.v.t \in {"list", "missing"} THEN field.items ELSE <<>>

attachments_to_text(attachments, embeds) ==
    LET a == ListItems(attachments)
        e == ListItems(embeds)
        parts == Concat([i \in 1..Len(a) |-> AttachmentPart(a[i])])
                 \o Concat([i \in 1..Len(e) |-> EmbedPart(e[i])])
    IN  Strip(Join(<<"\n">>, parts), Whitespace)

\* extract_messages(obj); data is [shape, items], an item is [is_dict, msg,
\* inner]: inner the item's own values when it is a mapping.  Shapes: "list",
\* "keyed" (a mapping with a list under data, messages, results or
\* records), "mapping" (any other mapping), "scalar".
extract_messages(obj) ==
    CASE obj.shape \in {"list", "keyed"} ->
            SelectSeq(obj.items, LAMBDA x : x.is_dict)
      [] obj.shape = "mapping" ->
            IF obj.items # <<>> /\ obj.items[1].is_dict
            THEN (IF obj.items[1].inner # <<>> /\ obj.items[1].inner[1].is_dict
                  THEN obj.items[1].inner
                  ELSE obj.items)
            ELSE <<>>
      [] OTHER -> <<>>

json_suffix == <<".", "j", "s", "o", "n">>
page_suffix == <<"_", "p", "a", "g", "e">>

\* os.path.basename(path)
basename(path) ==
    LET slashes == {i \in 1..Len(path) : path[i] = "/"}
    IN  IF slashes = {} THEN path ELSE SubSeq(path, Max(slashes) + 1, Len(path))

\* re.split(r"\.json$", base, flags=re.I)[0]: $ is the end of the string,
\* or the place before a final newline
SplitJson(base) ==
    LET low == [i \in 1..Len(base) |-> LowerChar(base[i])]
    IN  IF EndsWith(low, json_suffix) THEN SubSeq(base, 1, Len(base) - 5)
        ELSE IF EndsWith(low, json_suffix \o <<"\n">>) THEN SubSeq(base, 1, Len(base) - 6)
        ELSE base

\* name.split("_page")[0]
BeforePage(name) ==
    SubSeq(name, 1, First(1, Len(name), LAMBDA i : MatchAt(name, i, page_suffix)) - 1)

\* the name channel_name_from_filename derives, before the slug rule
NameFromFile(path) == BeforePage(SplitJson(basename(path)))

channel_name_from_filename(path) == sanitize_channel(NameFromFile(path))

Ok(v) == [raised |-> FALSE, v |-> v]
Raised == [raised |-> TRUE, v |-> <<>>]

\* m.get("type", 0) != 0 is false: the message is kept
IsChatMessage(m) ==
    m.type.t = "missing" \/ (m.type.t \in {"int", "bool", "float"} /\ m.type.i = 0)

\* m.get("userName") or (m.get("author") or {}).get("username") or
\* "user_import"; .get on an author that is no mapping is an AttributeError
UsernameSource(m) ==
    IF Truthy(m.userName) THEN Ok(m.userName)
    ELSE IF ~Truthy(m.author) THEN Ok(JStr(user_import))
    ELSE IF m.author.t # "dict" THEN Raised
    ELSE IF Truthy(m.author_username) THEN Ok(m.author_username)
    ELSE Ok(JStr(user_import))

\* sanitize_username(...) of it: .strip() on a value that is no str is an
\* AttributeError
UsernameOf(m) ==
    LET src == UsernameSource(m)
    IN  IF src.raised THEN Raised
        ELSE IF src.v.t # "str" THEN Raised
        ELSE Ok(sanitize_username(src.v.s))

\* str(m.get("channel_id", "")).strip()
DiscordChanId(m) ==
    IF m.channel_id.t = "missing" THEN <<>>
    ELSE Strip(PyStr(m.channel_id), Whitespace)

\* key in chan_map; the map is the sequence of its entries [k, v]
HasKey(map, key) == \E i \in 1..Len(map) : map[i].k = key

\* chan_map[key]
Lookup(map, key) == map[CHOOSE i \in 1..Len(map) : map[i].k = key].v

\* (a variant of ChooseChannel in which the channel map wins over --channel)
ChooseChannel_MapFirst(m, infile, force_channel, map) ==
    IF DiscordChanId(m) # <<>> /\ HasKey(map, DiscordChanId(m))
    THEN Lookup(map, DiscordChanId(m))
    ELSE IF force_channel # <<>> THEN JStr(force_channel)
    ELSE JStr(channel_name_from_filename(infile))

\* the channel selection, lines 259-265
ChooseChannel(m, infile, force_channel, map) ==
    IF force_channel # <<>> THEN JStr(force_channel)
    ELSE IF DiscordChanId(m) # <<>> /\ HasKey(map, DiscordChanId(m))
    THEN Lookup(map, DiscordChanId(m))
    ELSE JStr(channel_name_from_filename(infile))

\* sanitize_channel(channel): (ch or "") of a falsy value is "", .lower() of
\* a truthy value that is no str is an AttributeError
ChannelOf(m, infile, force_channel, map) ==
    LET channel == ChooseChannel(m, infile, force_channel, map)
    IN  IF ~Truthy(channel) THEN Ok(sanitize_channel(<<>>))
        ELSE IF channel.t # "str" THEN Raised
        ELSE Ok(sanitize_channel(channel.s))

\* the text of the row; re.sub on a truthy content that is no str is a
\* TypeError
TextOf(m) ==
    LET extra == attachments_to_text(m.attachments, m.embeds)
        body == IF Truthy(m.content) THEN SanitizeBody(m.content.s) ELSE <<>>
    IN  IF Truthy(m.content) /\ m.content.t # "str" THEN Raised
        ELSE IF extra = <<>> THEN Ok(body)
        ELSE Ok(Strip(body \o (IF body # <<>> THEN <<"\n">> ELSE <<>>) \o extra,
                      Whitespace))

\* the body of the loop for one kept message: the row, or the exception
RowOf(m, infile, force_channel, map) ==
    LET ts == to_epoch_seconds(m.timestamp)
        username == UsernameOf(m)
        channel == ChannelOf(m, infile, force_channel, map)
        text == TextOf(m)
    IN  IF ts.raised \/ username.raised \/ channel.raised \/ text.raised THEN Raised
        ELSE Ok(<<ts.v, channel.v, username.v, text.v>>)

\* the messages the loop builds a row for
KeptMessages(data) ==
    LET ms == SelectSeq(extract_messages(data), LAMBDA x : x.is_dict /\ IsChatMessage(x.msg))
    IN  [k \in 1..Len(ms) |-> ms[k].msg]

rows_from_json_file(file, force_channel, map) ==
    LET ms == KeptMessages(file.data)
        built == [k \in 1..Len(ms) |-> RowOf(ms[k], file.name, force_channel, map)]
    IN  IF \E k \in 1..Len(ms) : built[k].raised THEN Raised
        ELSE Ok([k \in 1..Len(ms) |-> built[k].v])

\* (a variant of SortByTs that leaves the rows as they were built)
SortByTs_Skipped(rows) == rows

\* all_rows.sort(key=lambda r: r[0]): ascending, equal keys in their order
SortByTs(rows) ==
    LET rank(i) == Cardinality({j \in 1..Len(rows) :
                        rows[j][1] < rows[i][1] \/ (rows[j][1] = rows[i][1] /\ j <= i)})
    IN  [k \in 1..Len(rows) |-> rows[CHOOSE i \in 1..Len(rows) : rank(i) = k]]

---------------------------------------------------------------------------
(* main() in convert mode, from the loop over the inputs on. *)

\* one turn of the loop over file_args; an exception leaves main
BuildRows ==
    /\ pc = "build"
    /\ next_file < Len(file_args)
    /\ LET r == rows_from_json_file(file_args[next_file + 1], forced_channel, chan_map)
       IN  IF r.raised
           THEN pc' = "raised" /\ UNCHANGED <<all_rows, next_file>>
           ELSE /\ all_rows' = all_rows \o r.v
                /\ next_file' = next_file + 1
                /\ pc' = "build"
    /\ UNCHANGED <<callVars, file_args, forced_channel, chan_map, outfile, preflightVars>>

SortRows ==
    /\ pc = "build"
    /\ next_file = Len(file_args)
    /\ all_rows' = SortByTs(all_rows)
    /\ pc' = "write"
    /\ UNCHANGED <<callVars, file_args, next_file, forced_channel, chan_map,
                   outfile, preflightVars>>

\* the row as main hands it to the writer
CsvRow(r) == <<IntToStr(r[1]), r[2], r[3], r[4]>>

WriteCsv ==
    /\ pc = "write"
    /\ outfile' = Concat([k \in 1..Len(all_rows) |-> writerow(CsvRow(all_rows[k]))])
    /\ pc' = "preflight"
    /\ UNCHANGED <<callVars, file_args, next_file, forced_channel, chan_map,
                   all_rows, preflightVars>>

Next ==
    \/ BuildRows \/ SortRows \/ WriteCsv
    \/ PreflightOpen \/ PreflightRow \/ PreflightReturn

---------------------------------------------------------------------------
(* Inputs of the conversion: message records with one field set to each    *)
(* presence, type and shape JSON allows, files of up to MaxMsgs messages   *)
(* in each of the export shapes, file names, --channel values and channel  *)
(* maps.                                                                   *)

NoList == [v |-> JMissing, items |-> <<>>]
ListOf(items) == [v |-> JVal("list", Len(items), <<>>), items |-> items]
NotAList(v) == [v |-> v, items |-> <<>>]

\* one element of attachments or of embeds
UrlEntry(url, proxy_url, filename) ==
    [v |-> JVal("dict", 1, <<>>), url |-> url, proxy_url |-> proxy_url,
     filename |-> filename]
PlainEntry(v) == [v |-> v, url |-> JMissing, proxy_url |-> JMissing, filename |-> JMissing]

\* the message {}
EmptyMsg ==
    [type |-> JMissing, timestamp |-> JMissing, content |-> JMissing,
     userName |-> JMissing, author |-> JMissing, author_username |-> JMissing,
     channel_id |-> JMissing, attachments |-> NoList, embeds |-> NoList]

JBool(b) == JVal("bool", IF b THEN 1 ELSE 0, <<>>)
JFloat(tenths) == JVal("float", tenths, <<>>)
JNaN == JVal("nan", 0, <<"n","a","n">>)
JList1 == JVal("list", 1, <<"[","1","]">>)
JEmptyList == JVal("list", 0, <<"[","]">>)
JDict1 == JVal("dict", 1, <<"{","'","a","'",":"," ","1","}">>)
JEmptyDict == JVal("dict", 0, <<"{","}">>)

bo_1 == <<"B","o","#","1">>
id_12 == <<"1","2">>

\* the message of the end-to-end scenario
ScenarioMsg ==
    [EmptyMsg EXCEPT !.type = JInt(0),
                     !.timestamp = JStr(iso_2021 \o midnight \o <<"Z">>),
                     !.content = JStr(scenario_content),
                     !.userName = JStr(bo_1)]

TypeValues ==
    {JInt(0), JInt(1), JNull, JStr(<<"0">>), JBool(FALSE), JBool(TRUE),
     JFloat(0), JNaN, JEmptyList}

TimestampValues ==
    {JNull, JInt(-5), JInt(0), JFloat(-15), JNaN, JBool(TRUE), JList1, JEmptyDict,
     JStr(iso_1969 \o last_second \o <<"Z">>), JStr(<<"n","o","w">>), JStr(epoch_2021)}

ContentValues ==
    {JNull, JStr(<<>>), JStr(<<"a","\n","b">>), JStr(<<" ","@","h","e","r","e"," ">>), JInt(5), JInt(0),
     JList1, JEmptyList, JDict1, JBool(TRUE), JNaN}

UserNameValues ==
    {JNull, JStr(<<>>), JStr(<<"#">>), JStr(<<"a","U+00E9">>), JInt(5), JInt(0), JList1, JBool(TRUE)}

\* author, author["username"]
AuthorValues ==
    {<<JNull, JMissing>>, <<JEmptyDict, JMissing>>, <<JDict1, JMissing>>,
     <<JDict1, JStr(<<"A","l">>)>>, <<JDict1, JStr(<<>>)>>, <<JDict1, JNull>>,
     <<JDict1, JInt(5)>>, <<JDict1, JList1>>,
     <<JStr(<<"b","o","b">>), JMissing>>, <<JStr(<<>>), JMissing>>, <<JList1, JMissing>>,
     <<JInt(5), JMissing>>, <<JInt(0), JMissing>>}

ChannelIdValues ==
    {JNull, JStr(<<>>), JStr(id_12), JStr(<<" ","1","2"," ">>), JStr(<<" ">>), JInt(12),
     JFloat(120), JBool(TRUE), JList1}

AttachmentValues ==
    {NotAList(JNull), NotAList(JInt(5)), NotAList(JStr(<<"u">>)), NotAList(JDict1),
     ListOf(<<>>),
     ListOf(<<UrlEntry(JStr(<<"u">>), JStr(<<"p">>), JStr(<<"f">>))>>),
     ListOf(<<UrlEntry(JStr(<<>>), JStr(<<"p">>), JStr(<<"f">>))>>),
     ListOf(<<UrlEntry(JMissing, JNull, JStr(<<"f">>))>>),
     ListOf(<<UrlEntry(JMissing, JMissing, JMissing)>>),
     ListOf(<<UrlEntry(JInt(5), JMissing, JMissing)>>),
     ListOf(<<PlainEntry(JStr(<<" ","u","\r">>)), PlainEntry(JInt(5))>>),
     ListOf(<<PlainEntry(JNull), UrlEntry(JStr(<<"u">>), JMissing, JMissing)>>)}

EmbedValues ==
    {NotAList(JNull), NotAList(JStr(<<"u">>)), ListOf(<<>>),
     ListOf(<<UrlEntry(JStr(<<"e">>), JMissing, JMissing)>>),
     ListOf(<<UrlEntry(JStr(<<>>), JMissing, JMissing)>>),
     ListOf(<<UrlEntry(JMissing, JStr(<<"p">>), JMissing)>>),
     ListOf(<<UrlEntry(JInt(5), JMissing, JMissing), PlainEntry(JStr(<<"e">>))>>)}

\* the messages with one field set
FieldVariants ==
    {[EmptyMsg EXCEPT !.type = v] : v \in TypeValues}
    \cup {[EmptyMsg EXCEPT !.timestamp = v] : v \in TimestampValues}
    \cup {[EmptyMsg EXCEPT !.content = v] : v \in ContentValues}
    \cup {[EmptyMsg EXCEPT !.userName = v] : v \in UserNameValues}
    \cup {[EmptyMsg EXCEPT !.author = a[1], !.author_username = a[2]] : a \in AuthorValues}
    \cup {[EmptyMsg EXCEPT !.channel_id = v] : v \in ChannelIdValues}
    \cup {[EmptyMsg EXCEPT !.attachments = v] : v \in AttachmentValues}
    \cup {[EmptyMsg EXCEPT !.embeds = v] : v \in EmbedValues}
    \cup {[EmptyMsg EXCEPT !.content = JStr(<<"h","i">>), !.attachments = v] :
              v \in AttachmentValues}

\* the messages the longer files are made of
ChatMsg(ts, content, channel_id) ==
    [EmptyMsg EXCEPT !.timestamp = ts, !.content = content, !.channel_id = channel_id]

ChatMsgs ==
    {ScenarioMsg,
     ChatMsg(JInt(7), JStr(<<"a","\n","b">>), JMissing),
     ChatMsg(JInt(-5), JStr(<<"h","i">>), JStr(id_12)),
     ChatMsg(JInt(0), JStr(<<"a",",","\"","b">>), JStr(<<" ","1","2"," ">>)),
     ChatMsg(JInt(3), JMissing, JStr(<<>>)),
     [EmptyMsg EXCEPT !.type = JInt(7), !.timestamp = JInt(1)]}

DictItem(m) == [is_dict |-> TRUE, msg |-> m, inner |-> <<>>]
NonDictItem == [is_dict |-> FALSE, msg |-> EmptyMsg, inner |-> <<>>]
\* a mapping whose values are inner, seen as a message: none of the keys
DictOf(inner) == [is_dict |-> TRUE, msg |-> EmptyMsg, inner |-> inner]

ItemsOf(ms) == [k \in 1..Len(ms) |-> DictItem(ms[k])]

FileData ==
    {[shape |-> "list", items |-> ItemsOf(ms)] : ms \in StringsUpTo(ChatMsgs, MaxMsgs)}
    \cup {[shape |-> "list", items |-> <<DictItem(m)>>] : m \in FieldVariants}
    \cup {[shape |-> "list", items |-> <<NonDictItem, DictItem(ScenarioMsg)>>],
          [shape |-> "keyed", items |-> <<DictItem(ScenarioMsg), NonDictItem>>],
          [shape |-> "mapping",
           items |-> <<DictOf(<<DictItem(ScenarioMsg), NonDictItem>>), DictItem(EmptyMsg)>>],
          [shape |-> "mapping",
           items |-> <<DictOf(<<NonDictItem>>), NonDictItem, DictItem(ScenarioMsg)>>],
          [shape |-> "mapping", items |-> <<DictOf(<<>>)>>],
          [shape |-> "mapping", items |-> <<NonDictItem, DictItem(ScenarioMsg)>>],
          [shape |-> "mapping", items |-> <<>>],
          [shape |-> "scalar", items |-> <<>>]}

general_json == general \o json_suffix
long_name == Rep("a", SLUG_MAX - 1) \o <<"-", "b">>
dev_chat_page2 == <<"o","u","t","/","D","e","v"," ","C","h","a","t","_","p","a","g","e","2",".","J","S","O","N">>
page1_json == <<"_","p","a","g","e","1",".","j","s","o","n">>

Entry(k, v) == [k |-> k, v |-> v]

\* channel maps as load_channel_map returns them
dev_ops_map == <<Entry(id_12, JStr(<<"D","e","v"," ","O","p","s">>))>>
empty_value_map == <<Entry(id_12, JStr(<<>>)), Entry(<<"N","o","n","e">>, JStr(<<"n","i","l">>))>>
not_str_map == <<Entry(id_12, JInt(5)), Entry(<<"T","r","u","e">>, JNull)>>
odd_keys_map ==
    <<Entry(<<>>, JStr(<<"e">>)), Entry(<<" ","1","2"," ">>, JStr(<<"s","p">>)), Entry(<<"1","2",".","0">>, JStr(<<"f","l">>))>>

Run(name, channel, map) == [name |-> name, channel |-> channel, map |-> map]

\* the command lines: the input's name, --channel, the loaded --channel-map
Runs ==
    {Run(general_json, <<>>, <<>>),
     Run(general_json, <<>>, dev_ops_map),
     Run(dev_chat_page2, <<>>, odd_keys_map),
     Run(long_name \o json_suffix, <<>>, empty_value_map),
     Run(page1_json, <<>>, not_str_map),
     Run(general_json, <<"O","p","s">>, dev_ops_map),
     Run(dev_chat_page2, <<"#">>, odd_keys_map),
     Run(long_name \o json_suffix, long_name, not_str_map)}

\* forced_channel = sanitize_channel(args.channel) if args.channel else ""
ForcedChannel(channel_arg) ==
    IF channel_arg # <<>> THEN sanitize_channel(channel_arg) ELSE <<>>

second_file ==
    [name |-> <<"o","p","s","_","p","a","g","e","1",".","j","s","o","n">>,
     data |-> [shape |-> "list",
               items |-> <<DictItem(ChatMsg(JInt(5), JStr(<<"x","\n","y">>), JMissing))>>]]

\* the inputs main is left with after the filter on .json: one file, or two
FileArgs(name) ==
    {<<[name |-> name, data |-> d]>> : d \in FileData}
    \cup {<<[name |-> name, data |-> [shape |-> "list", items |-> ItemsOf(ms)]],
            second_file>> : ms \in StringsUpTo(ChatMsgs, 1)}

Init ==
    /\ pc = "build"
    /\ \E run \in Runs :
          /\ file_args \in FileArgs(run.name)
          /\ chan_map = run.map
          /\ forced_channel = ForcedChannel(run.channel)
    /\ next_file = 0 /\ all_rows = <<>> /\ outfile = <<>>
    /\ arg = <<>> /\ ret = <<>>
    /\ idlePreflight

Spec == Init /\ [][Next]_vars

---------------------------------------------------------------------------
(* Preflight-only mode: main() calls preflight_slack_csv on a CSV file.    *)
(* The files: up to MaxRows rows, each a good row, a row with one defect,  *)
(* or a row whose text needs quoting, written quoted or plain.             *)

bo == <<"b", "o">>
hi == <<"h", "i">>

GoodRow(ts) == <<ts, general, bo, hi>>

CsvRows ==
    {GoodRow(<<"1">>), GoodRow(<<"2">>), GoodRow(<<"1", "0">>),
     <<<<"x", "1">>, general, bo, hi>>,
     <<<<"2">>, <<"O", "p", "s">>, bo, hi>>,
     <<<<"2">>, general, <<"b", "#">>, hi>>,
     <<<<"3">>, general, bo>>,
     <<<<"3">>, general, bo, hi, hi>>,
     <<<<"2">>, general, bo, <<"a", ",", "\"", "\n">>>>}

\* a row written without quotes, as a hand-made file has it
PlainLine(row) ==
    Concat([i \in 1..Len(row) |->
              (IF i > 1 THEN <<delimiter>> ELSE <<>>) \o row[i]]) \o <<"\n">>

CsvLines ==
    {writerow(r) : r \in CsvRows}
    \cup {PlainLine(GoodRow(<<"1">>)), PlainLine(<<<<"3">>, general, bo>>)}

CsvFiles == {Concat(ls) : ls \in StringsUpTo(CsvLines, MaxRows)}

InitPreflight ==
    /\ pc = "preflight"
    /\ outfile \in CsvFiles
    /\ arg = <<>> /\ ret = <<>>
    /\ file_args = <<>> /\ next_file = 0 /\ forced_channel = <<>>
    /\ chan_map = <<>> /\ all_rows = <<>>
    /\ idlePreflight

NextPreflight == PreflightOpen \/ PreflightRow \/ PreflightReturn

SpecPreflight == InitPreflight /\ [][NextPreflight]_vars

---------------------------------------------------------------------------
\* C2: whatever the input, sanitize_username returns a string matching
\* ^[A-Za-z0-9._-]{1,80}$, and an empty or pure-punctuation input returns
\* user_import.
PurePunctuation(s) == \A i \in 1..Len(s) : ~IsWord(s[i]) \/ s[i] = "_"

C2_UsernameMatches ==
    pc = "return" =>
        /\ USER_RE(ret)
        /\ PurePunctuation(arg) => ret = user_import

\* C4: whatever the input (an integer, a string, null), to_epoch_seconds
\* returns a non-negative integer, and an input no strategy parses (no
\* number, no ISO date, no digit in it) returns exactly 0.
NoStrategyParses(v) ==
    /\ v.t \in {"null", "str"}
    /\ ~fromisoformat(ZuluToOffset(v.s)).ok
    /\ SelectDigits(ZuluToOffset(v.s)) = <<>>

C4_EpochNonNegative ==
    pc = "return" =>
        /\ ~ret.raised
        /\ ret.v >= 0
        /\ NoStrategyParses(arg) => ret.v = 0

\* C3: whatever the input, sanitize_channel returns a string matching
\* ^[a-z0-9_-]{1,80}$; the empty string and a string made only of
\* characters the slug rule does not keep return general.
OnlyDisallowed(s) == \A i \in 1..Len(s) : ~IsChanChar(LowerChar(s[i]))

C3_ChannelMatches ==
    pc = "return" =>
        /\ CHAN_RE(ret)
        /\ OnlyDisallowed(arg) => ret = general

C3_Witness ==
    /\ pc = "return"
    /\ Len(arg) > SLUG_MAX
    /\ Len(ret) = SLUG_MAX
    /\ ret[SLUG_MAX] = "-"

\* C9 as stated: a body with no mention, no fence, no control character
\* but newline and tab, and only \n line endings comes out of
\* clean_text(strip_code_fences(strip_mentions(body))) unchanged.
NoMention(s) ==
    \A i \in 1..Len(s) : ~(s[i] = "@" /\ i < Len(s) /\ IsMentionChar(s[i + 1]))

NoFence(s) == \A i \in 1..Len(s) : ~MatchAt(s, i, fence)

NoProblemControl(s) == \A i \in 1..Len(s) : ~IsProblemControl(s[i])

CleanBody(s) == NoMention(s) /\ NoFence(s) /\ NoProblemControl(s)

C9_CleanBodyUnchanged ==
    (pc = "return" /\ CleanBody(arg)) => ret = arg

\* C9 amended: such a body comes out unchanged when, besides, it does not
\* start and end with the same quote character and holds none of the
\* escape sequences clean_text rewrites.
OuterQuoted(s) ==
    \E q \in {"\"", "'"} : StartsWith(s, <<q>>) /\ EndsWith(s, <<q>>)

HoldsEscape(s) ==
    \E i \in 1..Len(s) :
        \/ MatchAt(s, i, <<"\\","\\","n">>) \/ MatchAt(s, i, <<"\\","\\","r">>)
        \/ MatchAt(s, i, <<"\\","\"">>) \/ MatchAt(s, i, <<"\\","'">>)

C9_PlainBodyUnchanged ==
    (pc = "return" /\ CleanBody(arg) /\ ~OuterQuoted(arg) /\ ~HoldsEscape(arg))
        => ret = arg

C9_Witness ==
    /\ pc = "return"
    /\ CleanBody(arg) /\ ~OuterQuoted(arg) /\ ~HoldsEscape(arg)
    /\ {"@", "\n", "\""} \subseteq Range(arg)
    /\ ret = arg

\* the rows the reader has yielded so far
RowsRead == ReadAll(SubSeq(outfile, 1, f_pos))

\* C7: on a CSV whose rows all have 4 columns, all-digit timestamps in
\* strictly increasing order, a channel matching CHAN_RE and a username
\* matching USER_RE, preflight_slack_csv returns every counter 0 except
\* rows, which is the number of rows of the file.
WellFormedCsv(rows) ==
    /\ \A k \in 1..Len(rows) :
          /\ Len(rows[k]) = 4
          /\ IsNumericTs(rows[k][1])
          /\ CHAN_RE(rows[k][2])
          /\ USER_RE(rows[k][3])
    /\ \A k \in 2..Len(rows) : IntOf(rows[k - 1][1]) < IntOf(rows[k][1])

C7_CleanCsvAllZero ==
    (pc = "done" /\ WellFormedCsv(ReadAll(outfile)))
        => issues = [NoIssues EXCEPT !.rows = Len(ReadAll(outfile))]

C7_Witness ==
    /\ pc = "done"
    /\ WellFormedCsv(ReadAll(outfile))
    /\ issues.rows = MaxRows

\* C8: at every point of the scan, unsorted is the number of rows read with
\* 4 columns and an all-digit timestamp whose value is below that of the
\* most recent earlier such row; rows with another column count or
\* timestamp count nothing and leave the compared value alone.
ValidRows(rows) ==
    SelectSeq(rows, LAMBDA r : Len(r) = 4 /\ IsNumericTs(r[1]))

Descents(rows) ==
    LET v == ValidRows(rows)
    IN  Cardinality({k \in 2..Len(v) : IntOf(v[k][1]) < IntOf(v[k - 1][1])})

C8_UnsortedCountsDescents ==
    pc \in {"scan", "done"} =>
        /\ issues.unsorted = Descents(RowsRead)
        /\ last_ts = IF ValidRows(RowsRead) = <<>> THEN LAST_TS_INIT
                     ELSE IntOf(ValidRows(RowsRead)[Len(ValidRows(RowsRead))][1])

\* one row out of order, then rows that increase from it, with a row that
\* does not count in between: counted once
C8_Witness ==
    /\ pc = "done"
    /\ Len(RowsRead) = MaxRows
    /\ Len(ValidRows(RowsRead)) = MaxRows
    /\ IntOf(RowsRead[1][1]) > IntOf(RowsRead[MaxRows][1])
    /\ IntOf(RowsRead[2][1]) < IntOf(RowsRead[MaxRows][1])
    /\ issues.unsorted = 1

\* C1: converting the one-message array of the end-to-end scenario from
\* general.json, with no forced channel and an empty channel map, yields
\* exactly one row, (1609459200, general, Bo_1, "hello everyone x").
ScenarioRun ==
    /\ file_args = <<[name |-> general_json,
                      data |-> [shape |-> "list", items |-> <<DictItem(ScenarioMsg)>>]]>>
    /\ forced_channel = <<>>
    /\ chan_map = <<>>

C1_ScenarioRow ==
    (ScenarioRun /\ pc = "build" /\ next_file = 1) =>
        all_rows = <<<<1609459200, general, <<"B","o","_","1">>, <<"h","e","l","l","o"," ","e","v","e","r","y","o","n","e"," ","x">>>>>>

\* C5: whatever the presence, type or shape of the fields of the message
\* records and of the channel-map values, rows_from_json_file ends without
\* raising an error.
C5_NeverRaises == pc # "raised"

\* the messages all_rows holds a row of while the loop runs, each with the
\* name of its file
ConvertedFrom(k) ==
    LET ms == KeptMessages(file_args[k].data)
    IN  [j \in 1..Len(ms) |-> [m |-> ms[j], name |-> file_args[k].name]]

Converted == Concat([k \in 1..next_file |-> ConvertedFrom(k)])

\* the slug of a channel-map value
SlugOfValue(v) == IF Truthy(v) THEN sanitize_channel(v.s) ELSE general

\* C6 as stated: the channel of every row is the slug of the forced channel
\* when there is one, else of the channel-map value when the stringified
\* channel_id is a key of the map, else of the name derived from the file
\* name.
StatedChannel(m, name) ==
    IF forced_channel # <<>> THEN sanitize_channel(forced_channel)
    ELSE IF m.channel_id.t # "missing" /\ HasKey(chan_map, PyStr(m.channel_id))
    THEN SlugOfValue(Lookup(chan_map, PyStr(m.channel_id)))
    ELSE sanitize_channel(NameFromFile(name))

C6_ChannelByPriority ==
    pc = "build" =>
        /\ Len(all_rows) = Len(Converted)
        /\ \A k \in 1..Len(Converted) :
              all_rows[k][2] = StatedChannel(Converted[k].m, Converted[k].name)

\* C6 amended: the key looked up is the stringified channel_id with its
\* outer whitespace removed, and only when that is not empty; the file
\* name's channel is the slug of the slug of the derived name.
TrimmedId(m) ==
    IF m.channel_id.t = "missing" THEN <<>> ELSE Strip(PyStr(m.channel_id), Whitespace)

TrimmedChannel(m, name) ==
    IF forced_channel # <<>> THEN sanitize_channel(forced_channel)
    ELSE IF TrimmedId(m) # <<>> /\ HasKey(chan_map, TrimmedId(m))
    THEN SlugOfValue(Lookup(chan_map, TrimmedId(m)))
    ELSE sanitize_channel(sanitize_channel(NameFromFile(name)))

C6_ChannelByTrimmedId ==
    pc = "build" =>
        /\ Len(all_rows) = Len(Converted)
        /\ \A k \in 1..Len(Converted) :
              all_rows[k][2] = TrimmedChannel(Converted[k].m, Converted[k].name)

\* two rows of a file converted without --channel: one whose padded
\* channel_id hits the map, one that falls back to the file name
C6_Witness ==
    /\ pc = "build" /\ next_file = Len(file_args)
    /\ forced_channel = <<>>
    /\ \E j, k \in 1..Len(all_rows) :
          /\ Converted[j].m.channel_id = JStr(<<" ","1","2"," ">>)
          /\ all_rows[j][2] = <<"d","e","v","-","o","p","s">>
          /\ Converted[k].m.channel_id = JMissing
          /\ all_rows[k][2] = general

\* C10: in convert mode the preflight of the file just written reports
\* unsorted = 0 and wrong_cols = 0, and rows equal to the number of rows
\* written, whatever rows were built.
C10_OwnOutputPasses ==
    pc = "done" =>
        /\ issues.unsorted = 0
        /\ issues.wrong_cols = 0
        /\ issues.rows = Len(all_rows)

\* the rows in the order the loop built them
BuiltRows ==
    Concat([k \in 1..Len(file_args) |->
              rows_from_json_file(file_args[k], forced_channel, chan_map).v])

\* rows built out of order, one with a negative timestamp, one whose text
\* holds a newline
C10_Witness ==
    /\ pc = "done"
    /\ Len(all_rows) >= 2
    /\ BuiltRows # all_rows
    /\ all_rows[1][1] < 0
    /\ \E k \in 1..Len(all_rows) : "\n" \in Range(all_rows[k][4])
    /\ issues.rows = Len(all_rows)

=============================================================================
